---- MODULE Spec2Model ----
(***************************************************************************)
(* Model of src/app.py: the SolarAnalyzer estimation pipeline and the      *)
(* Streamlit sessions that drive it through the cached analyzer instance.  *)
(*                                                                         *)
(* Number representation.  The program computes in floating point; the     *)
(* model computes the same expressions in exact rational arithmetic on     *)
(* integers, each quantity carried in a fixed unit:                        *)
(*   efficiency, federal_tax_credit            percent        (0.20 -> 20) *)
(*   cost_per_watt, *_rate                     cents          (1.20 -> 120)*)
(*   roof_area_ratio                           1/RatioDen                  *)
(*   estimated_roof_area                       whole + frac/AreaDen        *)
(*   total_capacity_kw, confidence             hundredths                  *)
(*   daily_avg_kwh, payback_years, roi_percentage   tenths                 *)
(* round(x, n) is round-half-to-even and int(x) is truncation, both on    *)
(* the exact value.  Where an exact intermediate value is itself an        *)
(* integer or a rounding tie, the floating-point result can land on the    *)
(* neighbouring unit (e.g. int(14.999999999999996) = 14 for an exact 15);  *)
(* on every image of Images the model's values are the program's values.   *)
(* An image is abstracted to what analyze_image_properties reads from it:  *)
(* its shape, np.mean and np.std.                                          *)
(***************************************************************************)
EXTENDS Integers, Sequences, FiniteSets, TLC

VARIABLES
    knowledge_base,  \* the SOLAR_KNOWLEDGE dict object (self.knowledge_base aliases it)
    analyzer,        \* st.cache_resource entry of get_analyzer
    clock,           \* wall clock read by datetime.now()
    pc,              \* per session: position in main / analyze_rooftop
    image,           \* per session: the uploaded image
    frame,           \* per session: locals of analyze_rooftop
    results,         \* per session: the dict returned by analyze_rooftop
    memo             \* history: one earlier (image, result) pair

vars == <<knowledge_base, analyzer, clock, pc, image, frame, results, memo>>

(***************************************************************************)
(* Knowledge base                                                          *)
(***************************************************************************)
SOLAR_KNOWLEDGE ==
    [ panel_types |->
        [ monocrystalline |-> [efficiency |-> 20, cost_per_watt |-> 120, lifespan |-> 25],
          polycrystalline |-> [efficiency |-> 16, cost_per_watt |-> 90,  lifespan |-> 25],
          thin_film       |-> [efficiency |-> 12, cost_per_watt |-> 70,  lifespan |-> 20] ],
      installation_costs |->
        [ labor_per_panel |-> 150, permits_and_inspection |-> 2000,
          inverter_cost |-> 1500, mounting_hardware |-> 50 ],
      incentives |->
        [ federal_tax_credit |-> 30, net_metering_rate |-> 12, avg_electricity_rate |-> 13 ] ]

(***************************************************************************)
(* Arithmetic helpers                                                      *)
(***************************************************************************)
Min(a, b) == IF a < b THEN a ELSE b

Max(a, b) == IF a > b THEN a ELSE b

\* <<floor(n * 10^k / d), remainder>> by decimal long division, d > 0
RECURSIVE ScaleDiv(_, _, _)
ScaleDiv(n, d, k) ==
    IF k = 0 THEN <<n \div d, n % d>>
    ELSE LET p == ScaleDiv(n, d, k - 1)
         IN  <<p[1] * 10 + (p[2] * 10) \div d, (p[2] * 10) % d>>

\* round(n/d, ndigits), result in units of 10^-ndigits, ties to even
round(n, d, ndigits) ==
    LET p == ScaleDiv(n, d, ndigits)
        q == p[1]
        r == p[2]
    IN  IF 2 * r < d THEN q
        ELSE IF 2 * r > d THEN q + 1
        ELSE IF q % 2 = 0 THEN q ELSE q + 1

(***************************************************************************)
(* analyze_image_properties                                                *)
(***************************************************************************)
\* (brightness/255)*0.6 + (contrast/100)*0.4 = (10*brightness + 17*contrast)/4250
RatioDen == 4250

RatioLow == 1275

RatioHigh == 3400

\* variant: the upper clamp min(0.8, ...) is missing
analyze_image_properties_noclamp(img) ==
    [ width |-> img.width,
      height |-> img.height,
      brightness |-> img.brightness,
      contrast |-> img.contrast,
      roof_area_ratio |-> Max(RatioLow, 10 * img.brightness + 17 * img.contrast) ]

analyze_image_properties(img) ==
    [ width |-> img.width,
      height |-> img.height,
      brightness |-> img.brightness,
      contrast |-> img.contrast,
      roof_area_ratio |->
          Min(RatioHigh, Max(RatioLow, 10 * img.brightness + 17 * img.contrast)) ]

(***************************************************************************)
(* calculate_solar_potential                                               *)
(***************************************************************************)
\* pixel_to_sqft_ratio = 0.1 applied to a ratio over RatioDen
AreaDen == 42500

panel_area == 20

watts_per_panel == 300

sun_hours == 1500

location_factor == 1

\* width * height * 0.1 * roof_area_ratio, as whole + frac/AreaDen
estimated_roof_area(image_props) ==
    LET pixels == image_props.width * image_props.height
        q == pixels \div AreaDen
        m == pixels % AreaDen
        r == image_props.roof_area_ratio
    IN  [ whole |-> q * r + (m * r) \div AreaDen, frac |-> (m * r) % AreaDen ]

\* area > k for an integer k
AreaGreater(area, k) == area.whole > k \/ (area.whole = k /\ area.frac > 0)

\* variant: thresholds compared with >= instead of >
select_panel_type_geq(area) ==
    IF area.whole >= 1000 THEN "monocrystalline"
    ELSE IF area.whole >= 500 THEN "polycrystalline"
    ELSE "thin_film"

select_panel_type(area) ==
    IF AreaGreater(area, 1000) THEN "monocrystalline"
    ELSE IF AreaGreater(area, 500) THEN "polycrystalline"
    ELSE "thin_film"

\* variant: the 75% utilization factor is missing
max_panels_of_full(area) == area.whole \div panel_area

\* int(area * 0.75 / panel_area): 0.75/20 = 3/80
max_panels_of(area) == (3 * area.whole + (3 * area.frac) \div AreaDen) \div (4 * panel_area)

round_area(area) ==
    IF 2 * area.frac < AreaDen THEN area.whole
    ELSE IF 2 * area.frac > AreaDen THEN area.whole + 1
    ELSE IF area.whole % 2 = 0 THEN area.whole ELSE area.whole + 1

calculate_solar_potential(kb, image_props) ==
    LET area == estimated_roof_area(image_props)
        max_panels == max_panels_of(area)
        panel_type == select_panel_type(area)
        panel_specs == kb.panel_types[panel_type]
        \* total_capacity_kw = capNum / 100000
        capNum == max_panels * watts_per_panel * panel_specs.efficiency
        \* annual_production_kwh = total_capacity_kw * 1500 * location_factor = annNum / 200
        annNum == capNum * (sun_hours \div 500) * location_factor
    IN  [ roof_area |-> round_area(area),
          max_panels |-> max_panels,
          panel_type |-> panel_type,
          panel_specs |-> panel_specs,
          total_capacity_kw |-> round(capNum, 100000, 2),
          annual_production_kwh |-> round(annNum, 200, 0),
          daily_avg_kwh |-> round(annNum, 200 * 365, 1) ]

(***************************************************************************)
(* calculate_roi_analysis                                                  *)
(***************************************************************************)
Infinity == [inf |-> TRUE, tenths |-> 0]

Finite(t) == [inf |-> FALSE, tenths |-> t]

\* variant: zero savings yield a payback of 0 years
payback_of_zero(netNum, savNum) ==
    IF savNum > 0 THEN Finite(round(netNum, savNum, 1)) ELSE Finite(0)

\* net_cost / annual_savings if annual_savings > 0 else float('inf'), rounded to 1 decimal
payback_of(netNum, savNum) ==
    IF savNum > 0 THEN Finite(round(netNum, savNum, 1)) ELSE Infinity

\* round((total_25yr_savings / net_cost) * 100, 1) if net_cost > 0 else 0
roi_percentage_of(totNum, netNum) ==
    IF netNum > 0 THEN round(totNum, netNum, 3) ELSE 0

calculate_roi_analysis(kb, solar_data) ==
    LET costs == kb.installation_costs
        panel_cost == (solar_data.max_panels * watts_per_panel
                         * kb.panel_types[solar_data.panel_type].cost_per_watt) \div 100
        labor_cost == solar_data.max_panels * costs.labor_per_panel
        system_cost == panel_cost + labor_cost
                         + costs.permits_and_inspection + costs.inverter_cost
        \* net_cost = netNum / 100
        netNum == system_cost * (100 - kb.incentives.federal_tax_credit)
        \* annual_savings = savNum / 100
        savNum == solar_data.annual_production_kwh * kb.incentives.avg_electricity_rate
        \* total_25yr_savings = totNum / 100
        totNum == savNum * 25 - netNum
    IN  [ system_cost |-> system_cost,
          net_cost |-> round(netNum, 100, 0),
          annual_savings |-> round(savNum, 100, 0),
          payback_years |-> payback_of(netNum, savNum),
          total_25yr_savings |-> round(totNum, 100, 0),
          roi_percentage |-> roi_percentage_of(totNum, netNum) ]

(***************************************************************************)
(* generate_confidence_score                                               *)
(***************************************************************************)
\* image_quality = iq/5100, roof_size_factor = rf/500, panel_feasibility = pf/10
\* confidence = (20*iq + 153*rf + 7650*pf) / 255000
ConfDen == 255000

\* variant: image_quality is not clamped by min(1.0, ...)
confidence_num_noclamp(image_props, solar_data) ==
    LET iq == 51 * image_props.contrast + 10 * image_props.brightness
        rf == Min(500, solar_data.roof_area)
        pf == Min(10, solar_data.max_panels)
    IN  20 * iq + 153 * rf + 7650 * pf

confidence_num(image_props, solar_data) ==
    LET iq == Min(5100, 51 * image_props.contrast + 10 * image_props.brightness)
        rf == Min(500, solar_data.roof_area)
        pf == Min(10, solar_data.max_panels)
    IN  20 * iq + 153 * rf + 7650 * pf

\* variant: the score drifts with the time of the call
generate_confidence_score_timed(image_props, solar_data) ==
    Max(0, round(confidence_num(image_props, solar_data), ConfDen, 2) - clock)

generate_confidence_score(image_props, solar_data) ==
    round(confidence_num(image_props, solar_data), ConfDen, 2)

(***************************************************************************)
(* suitability and generate_recommendations                                *)
(***************************************************************************)
\* variant: strict comparison
PaybackLeq_strict(p, k) == ~p.inf /\ p.tenths < 10 * k

\* payback_years <= k and payback_years > k for k in years
PaybackLeq(p, k) == ~p.inf /\ p.tenths <= 10 * k

PaybackGreater(p, k) == p.inf \/ p.tenths > 10 * k

\* variant: the panel-count threshold is missing
determine_suitable_nopanels(solar_data, roi_data, confidence) ==
    /\ PaybackLeq(roi_data.payback_years, 12)
    /\ confidence >= 60

determine_suitable(solar_data, roi_data, confidence) ==
    /\ solar_data.max_panels >= 6
    /\ PaybackLeq(roi_data.payback_years, 12)
    /\ confidence >= 60

generate_recommendations(solar_data, roi_data, suitable) ==
    IF suitable
    THEN <<[msg |-> "install_panels", max_panels |-> solar_data.max_panels,
                                      panel_type |-> solar_data.panel_type],
           [msg |-> "expected_roi", roi_percentage |-> roi_data.roi_percentage],
           [msg |-> "annual_production", kwh |-> solar_data.annual_production_kwh]>>
         \o (IF PaybackLeq(roi_data.payback_years, 7)
             THEN <<[msg |-> "fast_payback"]>> ELSE <<>>)
    ELSE (IF solar_data.max_panels < 6 THEN <<[msg |-> "roof_too_small"]>> ELSE <<>>)
         \o (IF PaybackGreater(roi_data.payback_years, 12)
             THEN <<[msg |-> "long_payback"]>> ELSE <<>>)
         \o <<[msg |-> "consult_installer"]>>

(***************************************************************************)
(* Sessions: main() runs once per session interaction, all sessions share  *)
(* the analyzer returned by the cached get_analyzer()                      *)
(***************************************************************************)
Sessions == {1, 2}

MaxClock == 1

Img(w, h, b, c) == [width |-> w, height |-> h, brightness |-> b, contrast |-> c]

NoImage == Img(0, 0, 0, 0)

\* Uploaded images: each is a two-tone picture (half the samples at
\* brightness - contrast, half at brightness + contrast), so its mean and
\* standard deviation are exactly the listed integers.
Images ==
    { Img(2000, 1000, 150, 40), Img(200, 200, 150, 40), Img(10, 10, 150, 40),
      Img(1667, 20, 0, 0),      Img(330, 101, 0, 0),    Img(44, 50, 204, 51),
      Img(100, 100, 150, 40),   Img(80, 60, 150, 40),   Img(640, 480, 100, 30) }

Empty == [x \in {} |-> 0]

IsSet(f, name) == name \in DOMAIN f

\* self.knowledge_base: the analyzer's field refers to the SOLAR_KNOWLEDGE object
self_knowledge_base == knowledge_base

NewAnalyzer == [cached |-> TRUE, knowledge_base |-> "SOLAR_KNOWLEDGE"]

Init ==
    /\ knowledge_base = SOLAR_KNOWLEDGE
    /\ analyzer = [cached |-> FALSE, knowledge_base |-> "unset"]
    /\ clock = 0
    /\ pc = [s \in Sessions |-> "main"]
    /\ image = [s \in Sessions |-> NoImage]
    /\ frame = [s \in Sessions |-> Empty]
    /\ results = [s \in Sessions |-> Empty]
    /\ memo = Empty

\* analyzer = get_analyzer()
GetAnalyzer(s) ==
    /\ pc[s] = "main"
    /\ analyzer' = IF analyzer.cached THEN analyzer ELSE NewAnalyzer
    /\ pc' = [pc EXCEPT ![s] = "upload"]
    /\ UNCHANGED <<knowledge_base, clock, image, frame, results, memo>>

\* uploaded_file = st.file_uploader(...); image = Image.open(uploaded_file)
Upload(s) ==
    /\ pc[s] = "upload"
    /\ \E img \in Images : image' = [image EXCEPT ![s] = img]
    /\ pc' = [pc EXCEPT ![s] = "analyze_image_properties"]
    /\ UNCHANGED <<knowledge_base, analyzer, clock, frame, results, memo>>

\* one statement of analyze_rooftop: assign a local and move on
Assign(s, at, name, value, next) ==
    /\ pc[s] = at
    /\ frame' = [frame EXCEPT ![s] = (name :> value) @@ @]
    /\ pc' = [pc EXCEPT ![s] = next]

AnalyzeImageProperties(s) ==
    /\ Assign(s, "analyze_image_properties", "image_props",
              analyze_image_properties(image[s]), "calculate_solar_potential")
    /\ UNCHANGED <<knowledge_base, analyzer, clock, image, results, memo>>

\* variant: the estimator degrades the efficiency in the spec entry it hands out
CalculateSolarPotential_writes(s) ==
    /\ Assign(s, "calculate_solar_potential", "solar_data",
              calculate_solar_potential(self_knowledge_base, frame[s].image_props),
              "calculate_roi_analysis")
    /\ knowledge_base' =
          [knowledge_base EXCEPT
             !.panel_types[select_panel_type(estimated_roof_area(frame[s].image_props))].efficiency = 10]
    /\ UNCHANGED <<analyzer, clock, image, results, memo>>

CalculateSolarPotential(s) ==
    /\ Assign(s, "calculate_solar_potential", "solar_data",
              calculate_solar_potential(self_knowledge_base, frame[s].image_props),
              "calculate_roi_analysis")
    /\ UNCHANGED <<knowledge_base, analyzer, clock, image, results, memo>>

CalculateRoiAnalysis(s) ==
    /\ Assign(s, "calculate_roi_analysis", "roi_data",
              calculate_roi_analysis(self_knowledge_base, frame[s].solar_data),
              "generate_confidence_score")
    /\ UNCHANGED <<knowledge_base, analyzer, clock, image, results, memo>>

GenerateConfidenceScore(s) ==
    /\ Assign(s, "generate_confidence_score", "confidence",
              generate_confidence_score(frame[s].image_props, frame[s].solar_data),
              "suitable")
    /\ UNCHANGED <<knowledge_base, analyzer, clock, image, results, memo>>

DetermineSuitability(s) ==
    /\ Assign(s, "suitable", "suitable",
              determine_suitable(frame[s].solar_data, frame[s].roi_data, frame[s].confidence),
              "generate_recommendations")
    /\ UNCHANGED <<knowledge_base, analyzer, clock, image, results, memo>>

GenerateRecommendations(s) ==
    /\ Assign(s, "generate_recommendations", "recommendations",
              generate_recommendations(frame[s].solar_data, frame[s].roi_data, frame[s].suitable),
              "return")
    /\ UNCHANGED <<knowledge_base, analyzer, clock, image, results, memo>>

make_result(f, now) ==
    [ suitable |-> f.suitable,
      confidence |-> f.confidence,
      solar_data |-> f.solar_data,
      roi_data |-> f.roi_data,
      recommendations |-> f.recommendations,
      analysis_timestamp |-> now ]

\* return {...}; memo keeps the first result some session chose to remember
Return(s) ==
    /\ pc[s] = "return"
    /\ results' = [results EXCEPT ![s] = make_result(frame[s], clock)]
    /\ pc' = [pc EXCEPT ![s] = "display"]
    /\ memo' \in {memo} \cup
                 (IF memo = Empty
                  THEN {[image |-> image[s], result |-> make_result(frame[s], clock)]}
                  ELSE {})
    /\ UNCHANGED <<knowledge_base, analyzer, clock, image, frame>>

\* main() renders results (reads only); the next interaction reruns the script
Display(s) ==
    /\ pc[s] = "display"
    /\ pc' = [pc EXCEPT ![s] = "main"]
    /\ image' = [image EXCEPT ![s] = NoImage]
    /\ frame' = [frame EXCEPT ![s] = Empty]
    /\ results' = [results EXCEPT ![s] = Empty]
    /\ UNCHANGED <<knowledge_base, analyzer, clock, memo>>

Tick ==
    /\ clock < MaxClock
    /\ clock' = clock + 1
    /\ UNCHANGED <<knowledge_base, analyzer, pc, image, frame, results, memo>>

Next ==
    \/ \E s \in Sessions :
         \/ GetAnalyzer(s)
         \/ Upload(s)
         \/ AnalyzeImageProperties(s)
         \/ CalculateSolarPotential(s)
         \/ CalculateRoiAnalysis(s)
         \/ GenerateConfidenceScore(s)
         \/ DetermineSuitability(s)
         \/ GenerateRecommendations(s)
         \/ Return(s)
         \/ Display(s)
    \/ Tick

Spec == Init /\ [][Next]_vars

(***************************************************************************)
(* The pipeline functions on their whole input domain: one call of         *)
(* analyze_rooftop (session 1) entered at a stage with arguments drawn     *)
(* from bounded sets.                                                      *)
(***************************************************************************)
FnSizes ==
    { <<10, 10>>, <<44, 50>>, <<100, 100>>, <<125, 100>>, <<133, 94>>,
      <<200, 200>>, <<640, 480>>, <<2000, 1000>> }

FnBrightness == {3 * i : i \in 0..85}

FnContrast == {2 * i : i \in 0..64}

FnImages ==
    { Img(sz[1], sz[2], b, c) : sz \in FnSizes, b \in FnBrightness, c \in FnContrast }

FnPanelTypes == {"monocrystalline", "polycrystalline", "thin_film"}

\* solar_data arguments of calculate_roi_analysis
FnRoiArgs ==
    { [ roof_area |-> 100, max_panels |-> mp, panel_type |-> pt,
        panel_specs |-> SOLAR_KNOWLEDGE.panel_types[pt], total_capacity_kw |-> 0,
        annual_production_kwh |-> kwh, daily_avg_kwh |-> 0 ] :
      mp \in {0, 1, 10, 400}, pt \in FnPanelTypes, kwh \in {0, 3, 54, 900, 36000} }

\* (image_props, solar_data) arguments of generate_confidence_score
FnConfidenceArgs ==
    { [ image_props |-> analyze_image_properties(Img(640, 480, b, c)),
        solar_data |-> [ calculate_solar_potential(SOLAR_KNOWLEDGE,
                             analyze_image_properties(Img(640, 480, b, c)))
                         EXCEPT !.roof_area = ra, !.max_panels = mp ] ] :
      b \in {0, 1, 128, 254, 255}, c \in {0, 1, 25, 50, 127, 1000},
      ra \in {0, 1, 250, 499, 500, 501, 100000}, mp \in {0, 1, 5, 9, 10, 11, 3847} }

FnPaybacks == {Infinity} \cup {Finite(t) : t \in {0, 50, 69, 70, 71, 119, 120, 121, 400}}

\* (solar_data, roi_data, suitable) arguments of generate_recommendations
FnRecommendationArgs ==
    { [ image_props |-> analyze_image_properties(Img(640, 480, 100, 30)),
        solar_data |-> [ calculate_solar_potential(SOLAR_KNOWLEDGE,
                             analyze_image_properties(Img(640, 480, 100, 30)))
                         EXCEPT !.max_panels = mp ],
        roi_data |-> [ calculate_roi_analysis(SOLAR_KNOWLEDGE,
                           calculate_solar_potential(SOLAR_KNOWLEDGE,
                               analyze_image_properties(Img(640, 480, 100, 30))))
                       EXCEPT !.payback_years = pb ],
        confidence |-> 70,
        suitable |-> su ] :
      mp \in {0, 5, 6, 7, 246}, pb \in FnPaybacks, su \in BOOLEAN }

FnInit ==
    /\ knowledge_base = SOLAR_KNOWLEDGE
    /\ analyzer = NewAnalyzer
    /\ clock = 0
    /\ results = [s \in Sessions |-> Empty]
    /\ memo = Empty
    /\ \/ /\ pc = [s \in Sessions |-> IF s = 1 THEN "analyze_image_properties" ELSE "main"]
          /\ \E img \in FnImages : image = [s \in Sessions |-> IF s = 1 THEN img ELSE NoImage]
          /\ frame = [s \in Sessions |-> Empty]
       \/ /\ pc = [s \in Sessions |-> IF s = 1 THEN "calculate_roi_analysis" ELSE "main"]
          /\ image = [s \in Sessions |-> NoImage]
          /\ \E sd \in FnRoiArgs :
                frame = [s \in Sessions |->
                           IF s = 1
                           THEN [ image_props |-> analyze_image_properties(Img(100, 100, 150, 40)),
                                  solar_data |-> sd ]
                           ELSE Empty]
       \/ /\ pc = [s \in Sessions |-> IF s = 1 THEN "generate_confidence_score" ELSE "main"]
          /\ image = [s \in Sessions |-> NoImage]
          /\ \E a \in FnConfidenceArgs :
                frame = [s \in Sessions |->
                           IF s = 1
                           THEN a @@ [roi_data |-> calculate_roi_analysis(SOLAR_KNOWLEDGE, a.solar_data)]
                           ELSE Empty]

FnNext ==
    \/ AnalyzeImageProperties(1)
    \/ CalculateSolarPotential(1)
    \/ CalculateRoiAnalysis(1)
    \/ GenerateConfidenceScore(1)
    \/ DetermineSuitability(1)
    \/ GenerateRecommendations(1)
    \/ Return(1)

FnSpec == FnInit /\ [][FnNext]_vars

\* generate_recommendations on its own argument domain
RecInit ==
    /\ knowledge_base = SOLAR_KNOWLEDGE
    /\ analyzer = NewAnalyzer
    /\ clock = 0
    /\ results = [s \in Sessions |-> Empty]
    /\ memo = Empty
    /\ pc = [s \in Sessions |-> IF s = 1 THEN "generate_recommendations" ELSE "main"]
    /\ image = [s \in Sessions |-> NoImage]
    /\ \E a \in FnRecommendationArgs :
          frame = [s \in Sessions |-> IF s = 1 THEN a ELSE Empty]

RecNext ==
    \/ GenerateRecommendations(1)
    \/ Return(1)

RecSpec == RecInit /\ [][RecNext]_vars

(***************************************************************************)
(* Properties                                                              *)
(***************************************************************************)
Computed(s, name) == IsSet(frame[s], name)

Returned(s) == IsSet(results[s], "solar_data")

LowResolution(img) == img # NoImage /\ (img.width < 300 \/ img.height < 300)

\* C1: an image with width < 300 or height < 300 is rejected with
\* ResolutionTooLow and no solar estimate, financial estimate or
\* recommendation is computed or returned for it.
C1_LowResolutionRejected ==
    \A s \in Sessions :
        LowResolution(image[s]) =>
            /\ ~Computed(s, "solar_data")
            /\ ~Computed(s, "roi_data")
            /\ ~Computed(s, "recommendations")
            /\ pc[s] = "display" =>
                  /\ IsSet(results[s], "error")
                  /\ results[s].error = "ResolutionTooLow"
                  /\ ~Returned(s)

\* annual_savings = annual_production_kwh * avg_electricity_rate is zero
ZeroSavings(s) ==
    /\ Computed(s, "roi_data")
    /\ frame[s].solar_data.annual_production_kwh
          * knowledge_base.incentives.avg_electricity_rate = 0

\* C2 as stated: with annual_savings = 0 the payback is the infinite
\* sentinel and roi_percentage equals 0.
C2_ZeroSavingsRoiZero ==
    \A s \in Sessions :
        ZeroSavings(s) =>
            /\ frame[s].roi_data.payback_years.inf
            /\ frame[s].roi_data.roi_percentage = 0

\* C2 amended: with annual_savings = 0 the payback is the infinite sentinel
\* and roi_percentage equals -100.0 (net_cost is positive, the whole net
\* cost is lost); the computation completes without a division fault.
C2_ZeroSavingsRoiMinus100 ==
    \A s \in Sessions :
        ZeroSavings(s) =>
            /\ frame[s].roi_data.payback_years = Infinity
            /\ frame[s].roi_data.net_cost > 0
            /\ frame[s].roi_data.roi_percentage = -1000

C2_Witness ==
    \E s \in Sessions :
        /\ ZeroSavings(s)
        /\ frame[s].solar_data.max_panels = 0
        /\ frame[s].roi_data.payback_years.inf

Scenario1(s) ==
    /\ image[s] = Img(2000, 1000, 150, 40)
    /\ Computed(s, "solar_data")

\* C3 as stated: width=2000, height=1000, brightness=150, contrast=40 gives
\* roof_area 102580, max_panels 3846, panel_type monocrystalline.
C3_Scenario1AsStated ==
    \A s \in Sessions :
        Scenario1(s) =>
            /\ frame[s].solar_data.roof_area = 102580
            /\ frame[s].solar_data.max_panels = 3846
            /\ frame[s].solar_data.panel_type = "monocrystalline"

\* C3 amended: the same input gives roof_area 102588, max_panels 3847,
\* panel_type monocrystalline (the ratio 0.512941... is not truncated).
C3_Scenario1 ==
    \A s \in Sessions :
        Scenario1(s) =>
            /\ frame[s].solar_data.roof_area = 102588
            /\ frame[s].solar_data.max_panels = 3847
            /\ frame[s].solar_data.panel_type = "monocrystalline"

C3_Witness == \E s \in Sessions : Scenario1(s) /\ pc[s] = "calculate_roi_analysis"

\* a solar estimate produced by calculate_solar_potential from an image
Estimated(s) == image[s] # NoImage /\ Computed(s, "solar_data")

\* C4 as stated: panel_type is fixed by the returned (rounded) roof_area:
\* monocrystalline iff roof_area > 1000, polycrystalline iff
\* 500 < roof_area <= 1000, thin_film iff roof_area <= 500.
C4_TypeByRoundedArea ==
    \A s \in Sessions :
        Estimated(s) =>
            LET sd == frame[s].solar_data
            IN  /\ sd.panel_type = "monocrystalline" <=> sd.roof_area > 1000
                /\ sd.panel_type = "polycrystalline" <=> (500 < sd.roof_area /\ sd.roof_area <= 1000)
                /\ sd.panel_type = "thin_film" <=> sd.roof_area <= 500

\* C4 amended: panel_type is fixed by the unrounded estimated roof area.  In
\* terms of the returned roof_area: above 1000 it is monocrystalline,
\* strictly between 500 and 1000 polycrystalline, below 500 thin_film; at a
\* returned roof_area of exactly 1000 (resp. 500) it is monocrystalline
\* (resp. polycrystalline) exactly when the unrounded estimate exceeds the
\* threshold, so equal returned areas may carry different types there.
C4_TypeByEstimatedArea ==
    \A s \in Sessions :
        Estimated(s) =>
            LET sd == frame[s].solar_data
                est == estimated_roof_area(frame[s].image_props)
                over1000 == est.whole > 1000 \/ (est.whole = 1000 /\ est.frac # 0)
                over500 == est.whole > 500 \/ (est.whole = 500 /\ est.frac # 0)
            IN  /\ sd.panel_type \in {"monocrystalline", "polycrystalline", "thin_film"}
                /\ sd.roof_area > 1000 => sd.panel_type = "monocrystalline"
                /\ (500 < sd.roof_area /\ sd.roof_area < 1000) => sd.panel_type = "polycrystalline"
                /\ sd.roof_area < 500 => sd.panel_type = "thin_film"
                /\ sd.roof_area = 1000 =>
                      sd.panel_type = (IF over1000 THEN "monocrystalline" ELSE "polycrystalline")
                /\ sd.roof_area = 500 =>
                      sd.panel_type = (IF over500 THEN "polycrystalline" ELSE "thin_film")

\* a returned roof_area of 1000 that stands for exactly 1000 sq ft
C4_Witness ==
    \E s \in Sessions :
        /\ Estimated(s)
        /\ frame[s].solar_data.roof_area = 1000
        /\ frame[s].solar_data.panel_type = "polycrystalline"
        /\ estimated_roof_area(frame[s].image_props).frac = 0

\* C5: in every result, suitable is true exactly when max_panels >= 6,
\* payback_years <= 12 and confidence >= 0.6 hold for the reported values.
C5_Suitability ==
    \A s \in Sessions :
        Returned(s) =>
            LET r == results[s]
                pb == r.roi_data.payback_years
            IN  r.suitable <=>
                  /\ r.solar_data.max_panels >= 6
                  /\ ~pb.inf
                  /\ pb.tenths <= 120
                  /\ r.confidence >= 60

\* fewer than 6 panels, payback and confidence pass, not suitable
C5_Witness ==
    \E s \in Sessions :
        /\ Returned(s)
        /\ results[s].solar_data.max_panels < 6
        /\ ~results[s].roi_data.payback_years.inf
        /\ results[s].roi_data.payback_years.tenths <= 120
        /\ results[s].confidence >= 60
        /\ ~results[s].suitable

\* C6: the confidence lies in [0,1] and equals
\* 0.4*min(1, contrast/50*0.5 + brightness/255*0.5) + 0.3*min(1, roof_area/500)
\* + 0.3*min(1, max_panels/10) rounded to 2 decimals (within half a hundredth
\* of the exact value).
C6_Confidence ==
    \A s \in Sessions :
        Computed(s, "confidence") =>
            LET ip == frame[s].image_props
                sd == frame[s].solar_data
                conf == frame[s].confidence
                \* the exact weighted sum, in units of 1/255000
                iq == 51 * ip.contrast + 10 * ip.brightness
                exact == 20 * (IF iq > 5100 THEN 5100 ELSE iq)
                           + 153 * (IF sd.roof_area > 500 THEN 500 ELSE sd.roof_area)
                           + 7650 * (IF sd.max_panels > 10 THEN 10 ELSE sd.max_panels)
            IN  /\ 0 <= conf
                /\ conf <= 100
                /\ 2 * (2550 * conf - exact) <= 2550
                /\ 2 * (exact - 2550 * conf) <= 2550

\* every factor clamped at 1 with an over-range contrast
C6_Witness ==
    \E s \in Sessions :
        /\ Computed(s, "confidence")
        /\ frame[s].image_props.contrast > 100
        /\ frame[s].solar_data.roof_area > 500
        /\ frame[s].solar_data.max_panels > 10
        /\ frame[s].confidence = 100

\* C7: roof_area_ratio lies in [0.3, 0.8] and equals
\* brightness/255*0.6 + contrast/100*0.4 whenever that value is in [0.3, 0.8].
C7_RoofAreaRatio ==
    \A s \in Sessions :
        Computed(s, "image_props") =>
            LET ip == frame[s].image_props
                \* the unclamped value in units of 1/4250
                raw == 10 * ip.brightness + 17 * ip.contrast
            IN  /\ 10 * ip.roof_area_ratio >= 3 * 4250
                /\ 10 * ip.roof_area_ratio <= 8 * 4250
                /\ (10 * raw >= 3 * 4250 /\ 10 * raw <= 8 * 4250) => ip.roof_area_ratio = raw

\* brightest, highest-contrast input: the unclamped value exceeds 0.8
C7_Witness ==
    \E s \in Sessions :
        /\ Computed(s, "image_props")
        /\ image[s].brightness = 255
        /\ image[s].contrast = 128
        /\ frame[s].image_props.roof_area_ratio = RatioHigh

\* C8: a run of analyze_rooftop returns the same suitable, confidence,
\* solar_data, roi_data and recommendations as any earlier run on the same
\* image, whatever the time and whatever was analysed in between.
C8_Idempotent ==
    \A s \in Sessions :
        (Returned(s) /\ memo # Empty /\ memo.image = image[s]) =>
            /\ results[s].suitable = memo.result.suitable
            /\ results[s].confidence = memo.result.confidence
            /\ results[s].solar_data = memo.result.solar_data
            /\ results[s].roi_data = memo.result.roi_data
            /\ results[s].recommendations = memo.result.recommendations

\* the same image analysed again at a later time
C8_Witness ==
    \E s \in Sessions :
        /\ Returned(s)
        /\ memo # Empty
        /\ memo.image = image[s]
        /\ memo.result.analysis_timestamp < results[s].analysis_timestamp
        /\ results[s].confidence > 0

\* C9: the knowledge base and the analyzer's instance field keep their
\* initial values, and every panel_specs entry handed out still equals the
\* knowledge-base entry it refers to.
C9_KnowledgeBaseUnchanged ==
    /\ knowledge_base = SOLAR_KNOWLEDGE
    /\ analyzer.cached => analyzer = NewAnalyzer
    /\ \A s \in Sessions :
          Returned(s) =>
              results[s].solar_data.panel_specs
                  = knowledge_base.panel_types[results[s].solar_data.panel_type]

\* one session holds a returned result while the other is inside an analysis
C9_Witness ==
    \E s, u \in Sessions :
        /\ s # u
        /\ analyzer.cached
        /\ Returned(s)
        /\ Computed(u, "solar_data")
        /\ pc[u] = "calculate_roi_analysis"

Kinds(recs) == [i \in 1..Len(recs) |-> recs[i].msg]

\* C10: the message list is never empty and fixed by (suitable, max_panels,
\* payback_years): when suitable, panel-count, ROI and annual-production
\* messages in that order, then the fast-payback callout iff payback <= 7;
\* when not suitable, roof-too-small iff max_panels < 6, then long-payback
\* iff payback > 12, then the consult-installer message last.
C10_Recommendations ==
    \A s \in Sessions :
        Computed(s, "recommendations") =>
            LET recs == frame[s].recommendations
                sd == frame[s].solar_data
                pb == frame[s].roi_data.payback_years
                fast == ~pb.inf /\ pb.tenths <= 70
                long == pb.inf \/ pb.tenths > 120
                small == sd.max_panels < 6
            IN  /\ Len(recs) >= 1
                /\ frame[s].suitable =>
                      /\ Kinds(recs) = IF fast
                            THEN <<"install_panels", "expected_roi", "annual_production", "fast_payback">>
                            ELSE <<"install_panels", "expected_roi", "annual_production">>
                      /\ recs[1].max_panels = sd.max_panels
                      /\ recs[1].panel_type = sd.panel_type
                      /\ recs[2].roi_percentage = frame[s].roi_data.roi_percentage
                      /\ recs[3].kwh = sd.annual_production_kwh
                /\ ~frame[s].suitable =>
                      Kinds(recs) =
                          CASE small /\ long   -> <<"roof_too_small", "long_payback", "consult_installer">>
                            [] small /\ ~long  -> <<"roof_too_small", "consult_installer">>
                            [] ~small /\ long  -> <<"long_payback", "consult_installer">>
                            [] OTHER           -> <<"consult_installer">>

\* suitable with a payback of exactly 7 years: the callout is present
C10_Witness ==
    \E s \in Sessions :
        /\ Computed(s, "recommendations")
        /\ frame[s].suitable
        /\ frame[s].roi_data.payback_years = Finite(70)
        /\ Len(frame[s].recommendations) = 4

====
